---- MODULE Spec2Model ----
(***************************************************************************)
(* Endorsement distribution service: the CoSERV request handler, the       *)
(* resolver (EndorsementDistributor.GetEndorsements), the key synthesizer  *)
(* (GenerateKey) and the PostgreSQL-backed key/value store (Get / Set).    *)
(*                                                                         *)
(* Text (Go strings and []byte) is a sequence of byte values 0..255, so    *)
(* that hex and base64 renderings are computed, not assumed.               *)
(***************************************************************************)
EXTENDS Integers, Sequences, FiniteSets, TLC

VARIABLES
    table,      \* committed rows of the endorsements table, in storage order
    nextId,     \* number of Set calls so far (gives rows their identity)
    pc,         \* handler position: "idle" (no request) or "done" (response written)
    resp,       \* the response of the last request, with what the request did
    tx,         \* per writer: the Set call in flight (its transaction)
    lastGet,    \* the last store-level Get: what a reader observed
    committed,  \* the rows Set calls have committed, in commit order
    kin,        \* key synthesis run on its own: tenant and the two queries
    kout        \* ... and the two results

vars == <<table, nextId, pc, resp, tx, lastGet, committed, kin, kout>>

----------------------------------------------------------------------------
(* Bounds of the model *)

\* selector entries per list
MaxEntries == 2
\* Set calls (rows ever inserted) per behaviour
MaxSets == 2

----------------------------------------------------------------------------
(* Text helpers *)

RECURSIVE Concat(_)
Concat(ss) == IF ss = <<>> THEN <<>> ELSE Head(ss) \o Concat(Tail(ss))

Range(s) == {s[i] : i \in 1..Len(s)}

\* all sequences over S of length 0..n
SeqsUpTo(S, n) == UNION {[1..m -> S] : m \in 0..n}

\* fmt.Sprintf("%x", data): two lowercase hex digits per byte
HexDigit(n) == IF n < 10 THEN 48 + n ELSE 97 + (n - 10)

RECURSIVE HexEncode(_)
HexEncode(data) ==
    IF data = <<>> THEN <<>>
    ELSE <<HexDigit(Head(data) \div 16), HexDigit(Head(data) % 16)>>
             \o HexEncode(Tail(data))

\* base64.StdEncoding: alphabet A-Z a-z 0-9 + /, padded with =
B64Char(i) ==
    IF i < 26 THEN 65 + i
    ELSE IF i < 52 THEN 97 + (i - 26)
    ELSE IF i < 62 THEN 48 + (i - 52)
    ELSE IF i = 62 THEN 43 ELSE 47

RECURSIVE Base64Std(_)
Base64Std(b) ==
    IF b = <<>> THEN <<>>
    ELSE IF Len(b) = 1 THEN
        <<B64Char(b[1] \div 4), B64Char((b[1] % 4) * 16), 61, 61>>
    ELSE IF Len(b) = 2 THEN
        <<B64Char(b[1] \div 4),
          B64Char((b[1] % 4) * 16 + b[2] \div 16),
          B64Char((b[2] % 16) * 4), 61>>
    ELSE
        <<B64Char(b[1] \div 4),
          B64Char((b[1] % 4) * 16 + b[2] \div 16),
          B64Char((b[2] % 16) * 4 + b[3] \div 64),
          B64Char(b[3] % 64)>> \o Base64Std(SubSeq(b, 4, Len(b)))

\* url.URL{Scheme, Host, Path}.String(): scheme "://" host, a "/" unless the
\* path already starts with one, then the path (the base64 alphabet needs no
\* escaping in a path)
URLString(scheme, host, path) ==
    scheme \o <<58, 47, 47>> \o host
        \o (IF path # <<>> /\ path[1] # 47 THEN <<47>> ELSE <<>>) \o path

----------------------------------------------------------------------------
(* Queries *)

ArtifactTypeEndorsedValues == 0
ArtifactTypeTrustAnchors == 1
ArtifactTypeReferenceValues == 2

\* "ARM_CCA"
SchemeName == <<65, 82, 77, 95, 67, 67, 65>>

\* the handler's tenant "0", and another one
tenantID == <<48>>
Tenants == {tenantID, <<49>>}

\* "P", the profile of a query; <<>> is a query without one
ProfileP == <<80>>

\* a 32-byte implementation identifier with the given first byte
ImplIDOf(x) == [i \in 1..32 |-> IF i = 1 THEN x ELSE x % 7]
\* a 7-byte EUI-48 UEID (type byte 2) with the given last byte
UEIDOf(x) == <<2, 0, 0, 0, 0, 0, x>>

\* comid.Class: class-id absent ("none"), of another type ("uuid"), or an
\* impl-id
ClassEntries ==
    {[kind |-> "none", bytes |-> <<>>]}
        \cup {[kind |-> "impl-id", bytes |-> ImplIDOf(x)] : x \in {127, 252}}
\* comid.Instance: a UEID or another type (a UUID)
InstanceEntries ==
    {[kind |-> "uuid", bytes |-> <<>>], [kind |-> "ueid", bytes |-> UEIDOf(1)]}

\* a selector list: a nil pointer, or a (possibly empty) list
NilList == [set |-> FALSE, items |-> <<>>]
ListOf(items) == [set |-> TRUE, items |-> items]
Lists(S) == {NilList} \cup {ListOf(s) : s \in SeqsUpTo(S, MaxEntries)}

\* 7 stands for an artifact-type integer outside the enumeration
ArtifactTypes ==
    {ArtifactTypeEndorsedValues, ArtifactTypeTrustAnchors,
     ArtifactTypeReferenceValues, 7}

\* the query path segment: text that does not decode, or the encoding of a
\* query document
MalformedQuery ==
    [empty |-> FALSE, wellFormed |-> FALSE, profile |-> <<>>,
     artifactType |-> 0, classes |-> NilList, instances |-> NilList]
\* an empty path segment
EmptyQuery == [MalformedQuery EXCEPT !.empty = TRUE]
WellFormedQueries(CL, IL) ==
    [empty : {FALSE}, wellFormed : {TRUE}, profile : {ProfileP, <<>>},
     artifactType : ArtifactTypes, classes : CL, instances : IL]

----------------------------------------------------------------------------
(* Key synthesis *)

NoErr == ""

extractImplID(c) ==
    IF c.kind = "none" THEN [err |-> "missing class-id", val |-> <<>>]
    ELSE IF c.kind # "impl-id"
        THEN [err |-> "could not extract implementation-id from class-id",
              val |-> <<>>]
    ELSE [err |-> NoErr, val |-> Base64Std(c.bytes)]

extractInstID(i) ==
    IF i.kind # "ueid"
        THEN [err |-> "could not extract implementation-id from instance-id",
              val |-> <<>>]
    ELSE [err |-> NoErr, val |-> Base64Std(i.bytes)]

\* a lookup key that leaves the identifier out
RefValLookupKeyNoID(scheme, tenant, implID) == URLString(scheme, tenant, <<>>)

RefValLookupKey(scheme, tenant, implID) == URLString(scheme, tenant, implID)

TaCoservLookupKey(scheme, tenant, instID) == URLString(scheme, tenant, instID)

\* the loop over *s.Classes putting each new key in front
RECURSIVE ClassKeysPrepend(_, _, _, _)
ClassKeysPrepend(tenant, items, i, keys) ==
    IF i > Len(items) THEN [err |-> NoErr, index |-> -1, keys |-> keys]
    ELSE LET r == extractImplID(items[i])
         IN  IF r.err # NoErr
                 THEN [err |-> "creating lookup key for class",
                       index |-> i - 1, keys |-> <<>>]
                 ELSE ClassKeysPrepend(tenant, items, i + 1,
                          <<RefValLookupKey(SchemeName, tenant, r.val)>> \o keys)

\* the loop over *s.Classes passing over an entry that yields no identifier
RECURSIVE ClassKeysSkip(_, _, _, _)
ClassKeysSkip(tenant, items, i, keys) ==
    IF i > Len(items) THEN [err |-> NoErr, index |-> -1, keys |-> keys]
    ELSE LET r == extractImplID(items[i])
         IN  IF r.err # NoErr
                 THEN ClassKeysSkip(tenant, items, i + 1, keys)
                 ELSE ClassKeysSkip(tenant, items, i + 1,
                          Append(keys, RefValLookupKey(SchemeName, tenant, r.val)))

\* the loop over *s.Classes: keys appended in order, the first extraction
\* failure returns the error with its index and no keys
RECURSIVE ClassKeys(_, _, _, _)
ClassKeys(tenant, items, i, keys) ==
    IF i > Len(items) THEN [err |-> NoErr, index |-> -1, keys |-> keys]
    ELSE LET r == extractImplID(items[i])
         IN  IF r.err # NoErr
                 THEN [err |-> "creating lookup key for class",
                       index |-> i - 1, keys |-> <<>>]
                 ELSE ClassKeys(tenant, items, i + 1,
                          Append(keys, RefValLookupKey(SchemeName, tenant, r.val)))

RECURSIVE InstanceKeys(_, _, _, _)
InstanceKeys(tenant, items, i, keys) ==
    IF i > Len(items) THEN [err |-> NoErr, index |-> -1, keys |-> keys]
    ELSE LET r == extractInstID(items[i])
         IN  IF r.err # NoErr
                 THEN [err |-> "creating lookup key for instance",
                       index |-> i - 1, keys |-> <<>>]
                 ELSE InstanceKeys(tenant, items, i + 1,
                          Append(keys, TaCoservLookupKey(SchemeName, tenant, r.val)))

\* q.FromBase64Url(query)
FromBase64Url(query) ==
    IF query.wellFormed THEN NoErr ELSE "failed to decode"

\* GenerateKey reading whichever selector list is populated, classes first
GenerateKeyAnyList(tenant, query) ==
    IF FromBase64Url(query) # NoErr
        THEN [err |-> FromBase64Url(query), index |-> -1, keys |-> <<>>]
    ELSE IF query.artifactType
              \in {ArtifactTypeReferenceValues, ArtifactTypeTrustAnchors} THEN
        IF query.classes.set /\ Len(query.classes.items) > 0
            THEN ClassKeys(tenant, query.classes.items, 1, <<>>)
        ELSE IF query.instances.set
            THEN InstanceKeys(tenant, query.instances.items, 1, <<>>)
        ELSE [err |-> NoErr, index |-> -1, keys |-> <<>>]
    ELSE IF query.artifactType = ArtifactTypeEndorsedValues THEN
        [err |-> "CCA does not implement endorsed value queries",
         index |-> -1, keys |-> <<>>]
    ELSE [err |-> NoErr, index |-> -1, keys |-> <<>>]

\* GenerateKey without the endorsed-values case of the switch
GenerateKeyNoEndorsedCase(tenant, query) ==
    IF FromBase64Url(query) # NoErr
        THEN [err |-> FromBase64Url(query), index |-> -1, keys |-> <<>>]
    ELSE IF query.artifactType = ArtifactTypeReferenceValues THEN
        IF query.classes.set
            THEN ClassKeys(tenant, query.classes.items, 1, <<>>)
            ELSE [err |-> NoErr, index |-> -1, keys |-> <<>>]
    ELSE IF query.artifactType = ArtifactTypeTrustAnchors THEN
        IF query.instances.set
            THEN InstanceKeys(tenant, query.instances.items, 1, <<>>)
            ELSE [err |-> NoErr, index |-> -1, keys |-> <<>>]
    ELSE [err |-> NoErr, index |-> -1, keys |-> <<>>]

GenerateKey(tenant, query) ==
    IF FromBase64Url(query) # NoErr
        THEN [err |-> FromBase64Url(query), index |-> -1, keys |-> <<>>]
    ELSE IF query.artifactType = ArtifactTypeReferenceValues THEN
        IF query.classes.set
            THEN ClassKeys(tenant, query.classes.items, 1, <<>>)
            ELSE [err |-> NoErr, index |-> -1, keys |-> <<>>]
    ELSE IF query.artifactType = ArtifactTypeTrustAnchors THEN
        IF query.instances.set
            THEN InstanceKeys(tenant, query.instances.items, 1, <<>>)
            ELSE [err |-> NoErr, index |-> -1, keys |-> <<>>]
    ELSE IF query.artifactType = ArtifactTypeEndorsedValues THEN
        [err |-> "CCA does not implement endorsed value queries",
         index |-> -1, keys |-> <<>>]
    ELSE [err |-> NoErr, index |-> -1, keys |-> <<>>]

----------------------------------------------------------------------------
(* The store: table endorsements (kv_key text, kv_val text), no unique key *)

\* artifacts: opaque byte strings
Art1 == <<171>>
Art2 == <<1, 35>>

encodeArtifact(data) == HexEncode(data)

\* []byte(encoded): the bytes of the stored text, whatever they encode
decodeArtifact(encoded) == [err |-> NoErr, val |-> encoded]

\* json.Marshal of a []string: a nil slice is written as null
JSONMarshal(strs) ==
    IF strs = <<>> THEN [json |-> "null", items |-> <<>>]
    ELSE [json |-> "array", items |-> strs]

\* json.Unmarshal into a []string: null leaves the slice nil
JSONUnmarshal(val) == IF val.json = "null" THEN <<>> ELSE val.items

\* SELECT kv_val FROM endorsements WHERE kv_key = $1
SelectRows(rows, key) == SelectSeq(rows, LAMBDA r : r.kv_key = key)

\* DELETE FROM endorsements WHERE kv_key = $1
DeleteRows(rows, key) == SelectSeq(rows, LAMBDA r : r.kv_key # key)

\* the value Set writes for a list of artifacts
SetValue(artifacts) ==
    JSONMarshal([i \in 1..Len(artifacts) |-> encodeArtifact(artifacts[i])])

DecodeOne(encoded) == decodeArtifact(encoded).val

\* the artifacts of one row, decoded
RowArtifacts(r) ==
    [i \in 1..Len(JSONUnmarshal(r.kv_val)) |-> DecodeOne(JSONUnmarshal(r.kv_val)[i])]

\* PostgresStore.Get returning whatever it collected, be it nothing
GetWithoutEmptyCheck(rows, key, dbOK) ==
    IF ~dbOK THEN [err |-> "failed to query database", artifacts |-> <<>>]
    ELSE LET found == SelectRows(rows, key)
         IN  [err |-> NoErr,
              artifacts |-> Concat([i \in 1..Len(found) |-> RowArtifacts(found[i])])]

\* PostgresStore.Get over the rows the query returns; dbOK is whether the
\* query itself succeeds
Get(rows, key, dbOK) ==
    IF ~dbOK THEN [err |-> "failed to query database", artifacts |-> <<>>]
    ELSE LET found == SelectRows(rows, key)
             artifacts == Concat([i \in 1..Len(found) |-> RowArtifacts(found[i])])
         IN  IF Len(artifacts) = 0
                 THEN [err |-> "no artifacts found for key", artifacts |-> <<>>]
                 ELSE [err |-> NoErr, artifacts |-> artifacts]

----------------------------------------------------------------------------
(* The resolver *)

GetProfile(query) ==
    IF query.profile = <<>>
        THEN [err |-> "profile not found in CoSERV query", val |-> <<>>]
        ELSE [err |-> NoErr, val |-> query.profile]

CreateResult(profile, artifactType, artifacts) ==
    [Profile |-> profile,
     Result |-> [ArtifactType |-> artifactType,
                 Artifacts |-> [i \in 1..Len(artifacts) |-> [Data |-> artifacts[i]]]]]

\* the result document as serialized; NoBody when there is none
ToCBOR(result) == [encoded |-> TRUE, doc |-> result]
NoBody == [encoded |-> FALSE, doc |-> <<>>]

\* an error value: its message and the function that made it; a chain lists
\* an error and what it wraps, from the outermost in
Err(msg, by) == [msg |-> msg, by |-> by]
Wrap(msg, inner, by) == <<Err(msg, "GetEndorsements"), Err(inner, by)>>

\* what store.Get is handed at the call: the call takes the synthesized key
\* list where the store takes one key, so which of the keys is looked up is
\* left open (pick), and with no key there is nothing a row can match
NoKey == <<>>
LookupPicks(keys) == IF keys = <<>> THEN {0} ELSE 1..Len(keys)
LookupKey(keys, pick) == IF keys = <<>> THEN NoKey ELSE keys[pick]

\* GetEndorsements: the outcome, with the steps it took (decoded: the query
\* was parsed; synthesized: GenerateKey ran; gets: the keys looked up in the
\* store, in order)
GetEndorsements(rows, tenant, query, pick, dbOK) ==
    LET k == GenerateKey(tenant, query)
        lk == LookupKey(k.keys, pick)
        g == Get(rows, lk, dbOK)
        p == GetProfile(query)
        base == [err |-> <<>>, body |-> NoBody, decoded |-> TRUE,
                 synthesized |-> FALSE, keys |-> <<>>, index |-> -1,
                 gets |-> <<>>]
    IN  IF FromBase64Url(query) # NoErr THEN
            [base EXCEPT !.err = Wrap("failed to parse CoSERV query",
                                      FromBase64Url(query), "FromBase64Url")]
        ELSE IF k.err # NoErr THEN
            [base EXCEPT !.err = Wrap("failed to generate key", k.err, "GenerateKey"),
                         !.synthesized = TRUE, !.index = k.index]
        ELSE IF g.err # NoErr THEN
            [base EXCEPT !.err = Wrap("failed to get artifacts", g.err, "Get"),
                         !.synthesized = TRUE, !.keys = k.keys,
                         !.gets = <<lk>>]
        ELSE IF p.err # NoErr THEN
            [base EXCEPT !.err = Wrap("failed to get profile", p.err, "GetProfile"),
                         !.synthesized = TRUE, !.keys = k.keys,
                         !.gets = <<lk>>]
        ELSE
            [base EXCEPT !.body = ToCBOR(CreateResult(p.val, query.artifactType,
                                                      g.artifacts)),
                         !.synthesized = TRUE, !.keys = k.keys,
                         !.gets = <<lk>>]

----------------------------------------------------------------------------
(* The HTTP handler *)

EdApiMediaType == "application/coserv+cbor"
ProblemMediaType == "application/problem+json"

StatusOK == 200
StatusBadRequest == 400
StatusNotFound == 404
StatusNotAcceptable == 406

\* Accept headers: the media types listed, and the profile parameter (<<>>:
\* none). No header at all lists nothing.
AcceptHeaders ==
    {[types |-> <<>>, profile |-> <<>>],
     [types |-> <<EdApiMediaType>>, profile |-> ProfileP],
     [types |-> <<"*/*">>, profile |-> <<>>],
     [types |-> <<"application/json">>, profile |-> ProfileP]}

\* gin's match of an accepted type against the offer: equal up to the first
\* wildcard
MatchesOffer(accepted, offer) ==
    accepted = offer \/ accepted \in {"*/*", "application/*"}

\* c.NegotiateFormat(offer): the offer when nothing is listed or a listed type
\* matches it, "" otherwise
NegotiateFormat(accept, offer) ==
    IF accept.types = <<>> THEN offer
    ELSE IF \E i \in 1..Len(accept.types) : MatchesOffer(accept.types[i], offer)
        THEN offer
    ELSE ""

\* errors.Is(err, target): target is one of the errors of the chain. An error
\* made by errors.New is a new value, equal to no other.
ErrorsIs(chain, target) == \E i \in 1..Len(chain) : chain[i] = target
ErrorsNew(msg) == Err(msg, "CoservRequest")

\* the status reported for a failed resolution
ErrorStatus(err) ==
    IF ErrorsIs(err, ErrorsNew("no artifacts found"))
        THEN StatusNotFound ELSE StatusBadRequest

\* the media type computed from the Accept header
MediaTypeOf(accept) ==
    IF accept.profile # <<>>
        THEN [type |-> EdApiMediaType, profile |-> accept.profile]
        ELSE [type |-> EdApiMediaType, profile |-> <<>>]

\* the Content-Type of a successful response
DataContentType(accept) == [type |-> EdApiMediaType, profile |-> <<>>]

NoRun ==
    [err |-> <<>>, body |-> NoBody, decoded |-> FALSE, synthesized |-> FALSE,
     keys |-> <<>>, index |-> -1, gets |-> <<>>]

Problem(status, accept, query, detail, run, dbOK) ==
    [status |-> status,
     contentType |-> [type |-> ProblemMediaType, profile |-> <<>>],
     accept |-> accept, query |-> query, detail |-> detail, run |-> run,
     dbOK |-> dbOK]

\* CoservRequest with the Accept check made after the resolution
CoservResponseLateAccept(rows, accept, query, pick, dbOK) ==
    LET run == GetEndorsements(rows, tenantID, query, pick, dbOK)
    IN  IF query.empty THEN
            Problem(StatusBadRequest, accept, query,
                    <<Err("missing query parameter", "CoservRequest")>>, NoRun,
                    dbOK)
        ELSE IF NegotiateFormat(accept, EdApiMediaType) # EdApiMediaType THEN
            Problem(StatusNotAcceptable, accept, query,
                    <<Err("the only supported output format is", "CoservRequest")>>,
                    run, dbOK)
        ELSE IF run.err # <<>> THEN
            Problem(ErrorStatus(run.err), accept, query, run.err, run, dbOK)
        ELSE
            [status |-> StatusOK, contentType |-> DataContentType(accept),
             accept |-> accept, query |-> query, detail |-> <<>>, run |-> run,
             dbOK |-> dbOK]

\* Handler.CoservRequest: the response, with the request, what
\* GetEndorsements did and whether the store answered (dbOK)
CoservResponse(rows, accept, query, pick, dbOK) ==
    LET run == GetEndorsements(rows, tenantID, query, pick, dbOK)
    IN  IF NegotiateFormat(accept, EdApiMediaType) # EdApiMediaType THEN
            Problem(StatusNotAcceptable, accept, query,
                    <<Err("the only supported output format is", "CoservRequest")>>,
                    NoRun, dbOK)
        ELSE IF query.empty THEN
            Problem(StatusBadRequest, accept, query,
                    <<Err("missing query parameter", "CoservRequest")>>, NoRun,
                    dbOK)
        ELSE IF run.err # <<>> THEN
            Problem(ErrorStatus(run.err), accept, query, run.err, run, dbOK)
        ELSE
            [status |-> StatusOK, contentType |-> DataContentType(accept),
             accept |-> accept, query |-> query, detail |-> <<>>, run |-> run,
             dbOK |-> dbOK]

----------------------------------------------------------------------------
(* The service: requests against a store that Set calls provision *)

\* the lookup keys of tenant "0" that Set writes
KeyRV1 == RefValLookupKey(SchemeName, tenantID, Base64Std(ImplIDOf(127)))
KeyRV2 == RefValLookupKey(SchemeName, tenantID, Base64Std(ImplIDOf(252)))
KeyTA1 == TaCoservLookupKey(SchemeName, tenantID, Base64Std(UEIDOf(1)))
StoreKeys == {KeyRV1, KeyRV2, KeyTA1}

\* the artifact lists Set is called with
ArtifactLists == {<<Art1>>, <<Art2, Art1>>}

Queries ==
    {MalformedQuery, EmptyQuery}
        \cup WellFormedQueries(Lists(ClassEntries), Lists(InstanceEntries))

Idle == [status |-> 0]

Init ==
    /\ table = <<>>
    /\ nextId = 0
    /\ pc = "idle"
    /\ resp = Idle
    /\ tx = <<>>
    /\ lastGet = <<>>
    /\ committed = <<>>
    /\ kin = <<>>
    /\ kout = <<>>

\* PostgresStore.Set run to its commit with no other statement in between
SetRows(rows, id, key, artifacts) ==
    Append(DeleteRows(rows, key),
           [id |-> id, kv_key |-> key, kv_val |-> SetValue(artifacts)])

Set(key, artifacts) ==
    /\ pc = "idle"
    /\ nextId < MaxSets
    /\ table' = SetRows(table, nextId + 1, key, artifacts)
    /\ nextId' = nextId + 1
    /\ UNCHANGED <<pc, resp, tx, lastGet, committed, kin, kout>>

\* one request handled from the Accept check to the response
CoservRequest(accept, query, pick, dbOK) ==
    /\ pc = "idle"
    /\ resp' = CoservResponse(table, accept, query, pick, dbOK)
    /\ pc' = "done"
    /\ UNCHANGED <<table, nextId, tx, lastGet, committed, kin, kout>>

\* the handler returns; the next request starts afresh
Return ==
    /\ pc = "done"
    /\ pc' = "idle"
    /\ resp' = Idle
    /\ UNCHANGED <<table, nextId, tx, lastGet, committed, kin, kout>>

Next ==
    \/ \E key \in StoreKeys, artifacts \in ArtifactLists : Set(key, artifacts)
    \/ /\ pc = "idle"
       /\ \E accept \in AcceptHeaders, query \in Queries, dbOK \in BOOLEAN :
            \E pick \in LookupPicks(GenerateKey(tenantID, query).keys) :
                CoservRequest(accept, query, pick, dbOK)
    \/ Return

Spec == Init /\ [][Next]_vars

----------------------------------------------------------------------------
(* Properties of the resolver and the handler (under Spec) *)

\* the request of the response at hand reached GetEndorsements
Resolved ==
    /\ pc = "done"
    /\ NegotiateFormat(resp.accept, EdApiMediaType) = EdApiMediaType
    /\ ~resp.query.empty

\* ... with a query that decodes and names a profile, and a store that answers
ResolvedSound ==
    /\ Resolved
    /\ resp.query.wellFormed
    /\ resp.query.profile # <<>>
    /\ resp.dbOK

\* the artifacts of a response body
BodyArtifacts(body) ==
    [i \in 1..Len(body.doc.Result.Artifacts) |-> body.doc.Result.Artifacts[i].Data]

\* the artifacts the store holds for each of the keys, concatenated in key order
Combined(rows, keys) ==
    Concat([i \in 1..Len(keys) |-> Get(rows, keys[i], TRUE).artifacts])

\* no key occurs twice (no selector entry is repeated)
DistinctKeys(keys) ==
    \A i, j \in 1..Len(keys) : keys[i] = keys[j] => i = j

UnsupportedArtifactType ==
    Wrap("failed to generate key",
         "CCA does not implement endorsed value queries", "GenerateKey")

NoArtifactsFound ==
    Wrap("failed to get artifacts", "no artifacts found for key", "Get")

\* C1: a query whose artifactType is EndorsedValues, whatever its selector and
\* whatever the tenant, fails with the unsupported-artifact-type error, and
\* the store's Get is not called during that resolution.
C1_EndorsedValuesRejectedBeforeStore ==
    (Resolved /\ resp.query.wellFormed
        /\ resp.query.artifactType = ArtifactTypeEndorsedValues)
    => /\ resp.status # StatusOK
       /\ resp.run.err = UnsupportedArtifactType
       /\ resp.run.gets = <<>>
       /\ \A t \in Tenants, d \in BOOLEAN :
            LET r == GetEndorsements(table, t, resp.query, 0, d)
            IN  r.err = UnsupportedArtifactType /\ r.gets = <<>>

\* an EndorsedValues query with a class selector whose key the store holds
C1_Witness ==
    /\ Resolved
    /\ resp.query.wellFormed
    /\ resp.query.artifactType = ArtifactTypeEndorsedValues
    /\ resp.query.classes.set
    /\ Len(resp.query.classes.items) = 1
    /\ resp.query.classes.items[1].kind = "impl-id"
    /\ resp.dbOK
    /\ SelectRows(table, KeyRV1) # <<>>
    /\ resp.run.gets = <<>>

\* C2: a query whose synthesized key list is empty (no error from key
\* synthesis) resolves to an encoded result with zero artifacts and no error.
C2_EmptyKeyListGivesEmptyResult ==
    (ResolvedSound
        /\ resp.query.artifactType
             \in {ArtifactTypeReferenceValues, ArtifactTypeTrustAnchors}
        /\ GenerateKey(tenantID, resp.query).err = NoErr
        /\ GenerateKey(tenantID, resp.query).keys = <<>>)
    => /\ resp.status = StatusOK
       /\ resp.run.err = <<>>
       /\ resp.run.body.encoded
       /\ BodyArtifacts(resp.run.body) = <<>>

\* C3: with a non-empty key list, a key that is not found does not abort the
\* resolution: it fails with NoArtifactsFound exactly when the keys hold no
\* artifact between them, and otherwise succeeds with the artifacts of the
\* keys that were found. (Stated for selectors that repeat no entry.)
C3_MissingKeyTolerated ==
    (ResolvedSound
        /\ GenerateKey(tenantID, resp.query).err = NoErr
        /\ GenerateKey(tenantID, resp.query).keys # <<>>
        /\ DistinctKeys(GenerateKey(tenantID, resp.query).keys))
    => LET combined == Combined(table, GenerateKey(tenantID, resp.query).keys)
       IN  /\ (resp.run.err = NoArtifactsFound) <=> (combined = <<>>)
           /\ combined # <<>> =>
                /\ resp.status = StatusOK
                /\ BodyArtifacts(resp.run.body) = combined

\* C4: the artifacts of a successful resolution are the stored artifacts of
\* each synthesized key, in storage order, concatenated in key order. (Stated
\* for selectors that repeat no entry.)
C4_ResultIsConcatenationInKeyOrder ==
    (Resolved /\ resp.status = StatusOK
        /\ DistinctKeys(GenerateKey(tenantID, resp.query).keys))
    => BodyArtifacts(resp.run.body)
         = Combined(table, GenerateKey(tenantID, resp.query).keys)

\* C9: the status of a failed resolution follows the error kind: client error
\* (4xx) for a malformed or unsupported query, not found for a resolution
\* that found no artifacts, server error (5xx) for a store failure.
C9_StatusFollowsErrorKind ==
    (Resolved /\ resp.run.err # <<>>)
    => /\ resp.run.err[2].by \in {"FromBase64Url", "GenerateKey"}
            => resp.status \in 400..499
       /\ resp.run.err = NoArtifactsFound => resp.status = StatusNotFound
       /\ resp.run.err[2].msg = "failed to query database"
            => resp.status \in 500..599

\* an Accept header that lists media types, none of them the supported one or
\* a wildcard covering it
DoesNotAccept(accept) ==
    /\ accept.types # <<>>
    /\ \A i \in 1..Len(accept.types) :
         accept.types[i] \notin {EdApiMediaType, "*/*", "application/*"}

\* C10: a request whose Accept header does not accept application/coserv+cbor
\* is answered 406 with the query never decoded, no key generated and the
\* store never accessed.
C10_NotAcceptableBeforeProcessing ==
    (pc = "done" /\ DoesNotAccept(resp.accept))
    => /\ resp.status = StatusNotAcceptable
       /\ ~resp.run.decoded
       /\ ~resp.run.synthesized
       /\ resp.run.gets = <<>>

\* a rejected request whose query would have resolved from the store
C10_Witness ==
    /\ pc = "done"
    /\ DoesNotAccept(resp.accept)
    /\ resp.status = StatusNotAcceptable
    /\ resp.query.wellFormed
    /\ resp.query.artifactType = ArtifactTypeReferenceValues
    /\ GenerateKey(tenantID, resp.query).keys = <<KeyRV1>>
    /\ SelectRows(table, KeyRV1) # <<>>
    /\ resp.dbOK

----------------------------------------------------------------------------
(* Key synthesis on its own: GenerateKey applied to two queries of one tenant *)

KeyInstanceEntries ==
    InstanceEntries \cup {[kind |-> "ueid", bytes |-> UEIDOf(252)]}

KeyQueries ==
    [empty : {FALSE}, wellFormed : {TRUE}, profile : {ProfileP},
     artifactType : ArtifactTypes, classes : Lists(ClassEntries),
     instances : Lists(KeyInstanceEntries)]

\* the queries compared with q: the same artifact type, any selector in the
\* list that type reads
Companions(q) ==
    IF q.artifactType = ArtifactTypeReferenceValues
        THEN {[q EXCEPT !.classes = l, !.instances = NilList] :
                l \in Lists(ClassEntries)}
    ELSE IF q.artifactType = ArtifactTypeTrustAnchors
        THEN {[q EXCEPT !.instances = l, !.classes = NilList] :
                l \in Lists(KeyInstanceEntries)}
    ELSE {q}

InitKeys ==
    /\ table = <<>>
    /\ nextId = 0
    /\ pc = "idle"
    /\ resp = Idle
    /\ tx = <<>>
    /\ lastGet = <<>>
    /\ committed = <<>>
    /\ \E t \in Tenants, a \in KeyQueries :
         \E b \in Companions(a) : kin = [tenant |-> t, q1 |-> a, q2 |-> b]
    /\ kout = <<>>

Synthesize ==
    /\ kout = <<>>
    /\ kout' = <<GenerateKey(kin.tenant, kin.q1), GenerateKey(kin.tenant, kin.q2)>>
    /\ UNCHANGED <<table, nextId, pc, resp, tx, lastGet, committed, kin>>

NextKeys == Synthesize

SpecKeys == InitKeys /\ [][NextKeys]_vars

\* the selector list the artifact type reads
ActiveItems(q) ==
    IF q.artifactType = ArtifactTypeReferenceValues THEN q.classes.items
    ELSE IF q.artifactType = ArtifactTypeTrustAnchors THEN q.instances.items
    ELSE <<>>

\* the lookup key of one selector entry
EntryKey(tenant, q, e) ==
    IF q.artifactType = ArtifactTypeReferenceValues
        THEN RefValLookupKey(SchemeName, tenant, extractImplID(e).val)
        ELSE TaCoservLookupKey(SchemeName, tenant, extractInstID(e).val)

Extractable(q) ==
    \A i \in 1..Len(ActiveItems(q)) :
        ActiveItems(q)[i].kind \in {"impl-id", "ueid"}

\* C5: a ReferenceValues query whose N class entries all yield an
\* implementation identifier gets exactly N keys, keys[i] being the key of
\* classes[i]; the same for the instance entries of a TrustAnchors query.
C5_KeysFollowSelectorOrder ==
    (kout # <<>>
        /\ kin.q1.artifactType
             \in {ArtifactTypeReferenceValues, ArtifactTypeTrustAnchors}
        /\ Extractable(kin.q1))
    => /\ kout[1].err = NoErr
       /\ Len(kout[1].keys) = Len(ActiveItems(kin.q1))
       /\ \A i \in 1..Len(ActiveItems(kin.q1)) :
            kout[1].keys[i] = EntryKey(kin.tenant, kin.q1, ActiveItems(kin.q1)[i])

\* two different class entries, in an order their keys show
C5_Witness ==
    /\ kout # <<>>
    /\ kin.q1.artifactType = ArtifactTypeReferenceValues
    /\ Extractable(kin.q1)
    /\ Len(kin.q1.classes.items) = 2
    /\ Len(kout[1].keys) = 2
    /\ kout[1].keys[1] # kout[1].keys[2]

\* the keys of a query's instance entries / class entries, whatever its type
InstanceEntryKeys(tenant, q) ==
    {TaCoservLookupKey(SchemeName, tenant, extractInstID(q.instances.items[j]).val) :
        j \in {j \in 1..Len(q.instances.items) : q.instances.items[j].kind = "ueid"}}
ClassEntryKeys(tenant, q) ==
    {RefValLookupKey(SchemeName, tenant, extractImplID(q.classes.items[j]).val) :
        j \in {j \in 1..Len(q.classes.items) : q.classes.items[j].kind = "impl-id"}}

\* C6: the artifact type alone decides the selector list read: a
\* ReferenceValues query with instances and no classes gets zero keys and no
\* error, its result does not depend on the instances at all and none of its
\* keys is the key of an instance entry; the same for TrustAnchors and classes.
C6_TypeDecidesSelectorList ==
    kout # <<>> =>
       /\ kin.q1.artifactType = ArtifactTypeReferenceValues =>
            /\ kout[1] = GenerateKey(kin.tenant, [kin.q1 EXCEPT !.instances = NilList])
            /\ Range(kout[1].keys) \cap InstanceEntryKeys(kin.tenant, kin.q1) = {}
            /\ Len(kin.q1.classes.items) = 0 =>
                 kout[1].err = NoErr /\ kout[1].keys = <<>>
       /\ kin.q1.artifactType = ArtifactTypeTrustAnchors =>
            /\ kout[1] = GenerateKey(kin.tenant, [kin.q1 EXCEPT !.classes = NilList])
            /\ Range(kout[1].keys) \cap ClassEntryKeys(kin.tenant, kin.q1) = {}
            /\ Len(kin.q1.instances.items) = 0 =>
                 kout[1].err = NoErr /\ kout[1].keys = <<>>

\* a ReferenceValues query with two instance entries and no class entry
C6_Witness ==
    /\ kout # <<>>
    /\ kin.q1.artifactType = ArtifactTypeReferenceValues
    /\ Len(kin.q1.classes.items) = 0
    /\ Len(kin.q1.instances.items) = 2
    /\ \A j \in 1..2 : kin.q1.instances.items[j].kind = "ueid"
    /\ kout[1].err = NoErr
    /\ kout[1].keys = <<>>

----------------------------------------------------------------------------
(* The store on its own: Set transactions of concurrent writers, statement  *)
(* by statement, and Get as a reader outside them                            *)

MaxTx == 3

Writers == {1, 2}
TxKeys == {KeyRV1, KeyTA1}
\* Set is also called with no artifact
TxArtifactLists == ArtifactLists \cup {<<>>}

IdleTx ==
    [state |-> "idle", key |-> <<>>, artifacts |-> <<>>, id |-> 0,
     targets |-> {}, deleted |-> {}]

InitStore ==
    /\ table = <<>>
    /\ nextId = 0
    /\ pc = "idle"
    /\ resp = Idle
    /\ tx = [w \in Writers |-> IdleTx]
    /\ lastGet = <<>>
    /\ committed = <<>>
    /\ kin = <<>>
    /\ kout = <<>>

RowIds(rows) == {rows[i].id : i \in 1..Len(rows)}

\* the rows other writers' open transactions have deleted and hold locked
Locked(w) == UNION {tx[v].deleted : v \in Writers \ {w}}

\* artifacts encoded and marshalled, then s.pool.Begin
SetBegin(w, key, artifacts) ==
    /\ tx[w].state = "idle"
    /\ nextId < MaxTx
    /\ nextId' = nextId + 1
    /\ tx' = [tx EXCEPT ![w] = [IdleTx EXCEPT !.state = "begun", !.key = key,
                                              !.artifacts = artifacts,
                                              !.id = nextId + 1]]
    /\ UNCHANGED <<table, pc, resp, lastGet, committed, kin, kout>>

\* tx.Exec DELETE: the statement sees the committed rows of the key; it
\* waits if another open transaction has deleted one of them
SetDelete(w) ==
    /\ tx[w].state = "begun"
    /\ LET targets == RowIds(SelectRows(table, tx[w].key))
       IN  tx' = [tx EXCEPT ![w] =
                    IF targets \cap Locked(w) = {}
                        THEN [@ EXCEPT !.state = "deleted", !.deleted = targets]
                        ELSE [@ EXCEPT !.state = "waiting", !.targets = targets]]
    /\ UNCHANGED <<table, nextId, pc, resp, lastGet, committed, kin, kout>>

\* the waiting DELETE goes on once the locks are released: it deletes the
\* rows it had found that are still there, and none committed since
SetDeleteResume(w) ==
    /\ tx[w].state = "waiting"
    /\ tx[w].targets \cap Locked(w) = {}
    /\ tx' = [tx EXCEPT ![w] = [@ EXCEPT !.state = "deleted", !.targets = {},
                                         !.deleted = tx[w].targets \cap RowIds(table)]]
    /\ UNCHANGED <<table, nextId, pc, resp, lastGet, committed, kin, kout>>

\* tx.Exec INSERT
SetInsert(w) ==
    /\ tx[w].state = "deleted"
    /\ tx' = [tx EXCEPT ![w].state = "inserted"]
    /\ UNCHANGED <<table, nextId, pc, resp, lastGet, committed, kin, kout>>

TxRow(t) == [id |-> t.id, kv_key |-> t.key, kv_val |-> SetValue(t.artifacts)]

\* tx.Commit: the deletions and the inserted row become visible together
SetCommit(w) ==
    /\ tx[w].state = "inserted"
    /\ table' = Append(SelectSeq(table, LAMBDA r : r.id \notin tx[w].deleted),
                       TxRow(tx[w]))
    /\ committed' = Append(committed, TxRow(tx[w]))
    /\ tx' = [tx EXCEPT ![w] = [@ EXCEPT !.state = "committed", !.deleted = {}]]
    /\ UNCHANGED <<nextId, pc, resp, lastGet, kin, kout>>

\* Set returns nil
SetReturn(w) ==
    /\ tx[w].state = "committed"
    /\ tx' = [tx EXCEPT ![w] = IdleTx]
    /\ UNCHANGED <<table, nextId, pc, resp, lastGet, committed, kin, kout>>

\* a statement or the commit fails: Set returns the error and the deferred
\* tx.Rollback discards what the transaction did
SetRollback(w) ==
    /\ tx[w].state \in {"begun", "waiting", "deleted", "inserted"}
    /\ tx' = [tx EXCEPT ![w] = IdleTx]
    /\ UNCHANGED <<table, nextId, pc, resp, lastGet, committed, kin, kout>>

\* PostgresStore.Get from another connection of the pool: one SELECT over
\* the committed rows
StoreGet(key) ==
    /\ lastGet' = [key |-> key,
                   rows |-> SelectRows(table, key),
                   res |-> Get(table, key, TRUE),
                   ncommits |-> Len(committed),
                   concurrent |-> {w \in Writers : tx[w].state # "idle"
                                                   /\ tx[w].key = key}]
    /\ UNCHANGED <<table, nextId, pc, resp, tx, committed, kin, kout>>

NextStore ==
    \/ \E w \in Writers, key \in TxKeys, artifacts \in TxArtifactLists :
           SetBegin(w, key, artifacts)
    \/ \E w \in Writers : SetDelete(w)
    \/ \E w \in Writers : SetDeleteResume(w)
    \/ \E w \in Writers : SetInsert(w)
    \/ \E w \in Writers : SetCommit(w)
    \/ \E w \in Writers : SetReturn(w)
    \/ \E w \in Writers : SetRollback(w)
    \/ \E key \in TxKeys : StoreGet(key)

SpecStore == InitStore /\ [][NextStore]_vars

\* the rows of the Set calls for the key that had committed when the last Get ran
CommitsSeen ==
    SelectSeq(SubSeq(committed, 1, lastGet.ncommits),
              LAMBDA r : r.kv_key = lastGet.key)

\* every Set seen to have committed for the key wrote at least one artifact
NonEmptyCommitsSeen ==
    \A i \in 1..Len(CommitsSeen) : CommitsSeen[i].kv_val # SetValue(<<>>)

\* C8: a Get for a key that runs while a Set for that key is under way
\* observes one complete artifact set: that of the latest Set for the key to
\* have committed (the old set before the commit of the Set under way, the
\* new set after it), or none if no Set for the key has committed; never a
\* mixture of two sets, and never the work of a Set that was rolled back.
\* (Stated for Set calls that write at least one artifact.)
C8_GetSeesOldOrNewSet ==
    (lastGet # <<>> /\ lastGet.concurrent # {} /\ NonEmptyCommitsSeen)
    => IF CommitsSeen = <<>>
           THEN lastGet.res = Get(<<>>, lastGet.key, TRUE)
           ELSE lastGet.res
                  = Get(<<CommitsSeen[Len(CommitsSeen)]>>, lastGet.key, TRUE)

----------------------------------------------------------------------------
(* Further properties of the handler and the resolver (under Spec) *)

\* C11: a successful response to a request whose Accept header carries a
\* profile parameter has the supported media type with that same profile
\* value as its Content-Type.
C11_ProfileEchoedInContentType ==
    (pc = "done" /\ resp.status = StatusOK /\ resp.accept.profile # <<>>)
    => resp.contentType
         = [type |-> EdApiMediaType, profile |-> resp.accept.profile]

\* the first entry of the selector list read that yields no identifier
FirstFailing(q) ==
    CHOOSE i \in 1..Len(ActiveItems(q)) :
        /\ ActiveItems(q)[i].kind \notin {"impl-id", "ueid"}
        /\ \A j \in 1..(i - 1) : ActiveItems(q)[j].kind \in {"impl-id", "ueid"}

\* C12: when identifier extraction fails for the selector entry at index i,
\* key synthesis fails with the selector error naming index i and returns no
\* key at all, and the resolution fails without any store access.
C12_ExtractionFailureAbortsSynthesis ==
    (Resolved /\ resp.query.wellFormed
        /\ resp.query.artifactType
             \in {ArtifactTypeReferenceValues, ArtifactTypeTrustAnchors}
        /\ ~Extractable(resp.query))
    => /\ resp.status # StatusOK
       /\ resp.run.err
            = Wrap("failed to generate key",
                   IF resp.query.artifactType = ArtifactTypeReferenceValues
                       THEN "creating lookup key for class"
                       ELSE "creating lookup key for instance",
                   "GenerateKey")
       /\ resp.run.index = FirstFailing(resp.query) - 1
       /\ GenerateKey(tenantID, resp.query).keys = <<>>
       /\ resp.run.keys = <<>>
       /\ resp.run.gets = <<>>

\* a class selector whose second entry has no class-id, the key of the first
\* being in the store
C12_Witness ==
    /\ Resolved
    /\ resp.query.wellFormed
    /\ resp.dbOK
    /\ resp.query.artifactType = ArtifactTypeReferenceValues
    /\ Len(resp.query.classes.items) = 2
    /\ resp.query.classes.items[1] = [kind |-> "impl-id", bytes |-> ImplIDOf(127)]
    /\ resp.query.classes.items[2].kind = "none"
    /\ SelectRows(table, KeyRV1) # <<>>
    /\ resp.run.index = 1
    /\ resp.run.gets = <<>>

----------------------------------------------------------------------------
(* Further properties of the store (under SpecStore) *)

\* the Set calls for the key that have committed so far
CommitsFor(key) == SelectSeq(committed, LAMBDA r : r.kv_key = key)

\* C13: after Set(k, A) has committed for a non-empty A, with no other writer
\* of k, Get(k) succeeds and returns exactly A: the same artifacts, in the
\* same order, with the same bytes.
C13_StoreRoundTrip ==
    (lastGet # <<>> /\ lastGet.concurrent = {} /\ Len(CommitsSeen) = 1)
    => \A A \in ArtifactLists :
          CommitsSeen[1].kv_val = SetValue(A)
              => lastGet.res = [err |-> NoErr, artifacts |-> A]

\* C14: once the Set calls for a key have committed, however their
\* transactions interleaved, the table holds exactly one row for the key and
\* Get returns the artifacts of exactly one of those calls. (Stated for Set
\* calls that write at least one artifact.)
C14_OneRowPerKey ==
    \A k \in TxKeys :
        (CommitsFor(k) # <<>>
            /\ \A i \in 1..Len(CommitsFor(k)) :
                 CommitsFor(k)[i].kv_val # SetValue(<<>>)
            /\ \A w \in Writers :
                 tx[w].key = k => tx[w].state \in {"idle", "committed"})
        => /\ Len(SelectRows(table, k)) = 1
           /\ \E i \in 1..Len(CommitsFor(k)) :
                Get(table, k, TRUE) = Get(<<CommitsFor(k)[i]>>, k, TRUE)

\* a row holding the empty JSON array
EmptyArrayRow(key) ==
    [id |-> 0, kv_key |-> key, kv_val |-> [json |-> "array", items |-> <<>>]]

\* C15: Get returns no error only together with at least one artifact, and a
\* key whose rows hold no artifact (as after Set with an empty artifact
\* sequence, or with the empty array stored) gets the same "no artifacts
\* found" error as a key with no rows.
C15_GetNeverSucceedsEmpty ==
    lastGet # <<>> =>
       /\ lastGet.res.err = NoErr => Len(lastGet.res.artifacts) >= 1
       /\ (\A i \in 1..Len(lastGet.rows) :
               JSONUnmarshal(lastGet.rows[i].kv_val) = <<>>)
            => /\ lastGet.res.err = "no artifacts found for key"
               /\ lastGet.res = Get(<<>>, lastGet.key, TRUE)
       /\ Get(<<EmptyArrayRow(lastGet.key)>>, lastGet.key, TRUE)
            = Get(<<>>, lastGet.key, TRUE)

\* a Get for a key whose one row was written by Set with no artifact
C15_Witness ==
    /\ lastGet # <<>>
    /\ Len(lastGet.rows) = 1
    /\ lastGet.rows[1].kv_val = SetValue(<<>>)
    /\ lastGet.res.err = "no artifacts found for key"

----------------------------------------------------------------------------
(* Artifact types outside the enumeration (under Spec) *)

\* C16: a decoded query whose artifact type is none of ReferenceValues,
\* TrustAnchors and EndorsedValues is rejected with an error by key
\* generation and causes no store access.
C16_UnknownArtifactTypeRejected ==
    (Resolved /\ resp.query.wellFormed /\ resp.dbOK
        /\ resp.query.artifactType
             \notin {ArtifactTypeReferenceValues, ArtifactTypeTrustAnchors,
                     ArtifactTypeEndorsedValues})
    => /\ GenerateKey(tenantID, resp.query).err # NoErr
       /\ resp.status # StatusOK
       /\ resp.run.err[2].by = "GenerateKey"
       /\ resp.run.gets = <<>>

====
